---- MODULE Spec2Model ----
(***************************************************************************)
(* The comparison page of hono-vs-nextjs: the App component (one useState  *)
(* cell, activeTab), the static content tables (comparisons, getBlocks),   *)
(* and the CodeBlock / FileTree components mounted in four display slots.  *)
(*                                                                         *)
(* The only asynchronous operation is CodeBlock's effect, which calls      *)
(* codeToHtml(code, {lang, theme}).then(setHtml).  Every such call is a    *)
(* promise; the order in which pending promises settle is not decided by   *)
(* this program, so Resolve and Reject pick any pending call.              *)
(*                                                                         *)
(* Text content (code samples, tree text) is opaque data: each literal is  *)
(* represented by the name of the constant that holds it.  Block titles    *)
(* are kept as the sequence of their words (split at blanks and            *)
(* parentheses) so that "the title contains ..." can be evaluated.         *)
(***************************************************************************)
EXTENDS Integers, Sequences, FiniteSets, TLC

VARIABLES
    activeTab,   \* App's useState cell
    summary,     \* the two summary paragraphs as last rendered
    mounted,     \* the component instance in each display slot
    calls        \* every codeToHtml promise issued so far, in issue order

vars == <<activeTab, summary, mounted, calls>>

\* Bound on the number of codeToHtml calls issued in one behaviour of Spec.
MaxCalls == 6

\* Bound on the number of codeToHtml calls issued in one behaviour of SpecRapid.
MaxRapidCalls == 8

(***************************************************************************)
(* Static content                                                          *)
(***************************************************************************)

TabType == {"structure", "auth", "error", "middleware", "routing"}

tabs == <<"structure", "routing", "auth", "error", "middleware">>

comparisons ==
    [ structure |->
        [ title  |-> "File Structure",
          nextjs |-> "New endpoint = create new file in nested folder",
          hono   |-> "New endpoint = add one line of code" ],
      auth |->
        [ title  |-> "Authentication Middleware",
          nextjs |-> "Import and call auth function in every route file",
          hono   |-> "Define once as middleware, applies to all matched routes" ],
      error |->
        [ title  |-> "Error Handling",
          nextjs |-> "Per-route try/catch, inconsistent formats possible",
          hono   |-> "Global error handler, consistent response format" ],
      middleware |->
        [ title  |-> "Middleware",
          nextjs |-> "Designed for pages, NOT suitable for API layer (official docs)",
          hono   |-> "Perfect for API auth, logging, CORS, validation" ],
      routing |->
        [ title  |-> "Route Registration",
          nextjs |-> "File-based, implicit from folder structure",
          hono   |-> "Programmatic, explicit with app.get/post/etc" ] ]

\* BlockItem, variant 'tree'
TreeItem(tree, title) ==
    [type |-> "tree", text |-> tree, lang |-> "", title |-> title]

\* BlockItem, variant 'code'
CodeItem(code, lang, title) ==
    [type |-> "code", text |-> code, lang |-> lang, title |-> title]

\* case 'structure'
structureBlocks ==
    << TreeItem("nextjsFileTree", <<"Next.js", "Route", "Handlers">>),
       TreeItem("honoFileTree", <<"Hono", "Catch-All", "Handler">>) >>

\* case 'routing'
routingBlocks ==
    << CodeItem("nextjsRoutingCode", "typescript",
                <<"Next.js", "File-Based", "Routing">>),
       CodeItem("honoRoutingCode", "typescript",
                <<"Hono", "Programmatic", "Routing">>) >>

authBlocksSwapped ==
    << CodeItem("honoAuthCode", "typescript",
                <<"Hono", "(", "Middleware", "Chain", ")">>),
       CodeItem("nextjsAuthCode", "typescript",
                <<"Next.js", "(", "Manual", "Per-Route", ")">>) >>

\* case 'auth'
authBlocks ==
    << CodeItem("nextjsAuthCode", "typescript",
                <<"Next.js", "(", "Manual", "Per-Route", ")">>),
       CodeItem("honoAuthCode", "typescript",
                <<"Hono", "(", "Middleware", "Chain", ")">>) >>

\* case 'error'
errorBlocks ==
    << CodeItem("nextjsErrorCode", "typescript",
                <<"Next.js", "(", "Inconsistent", ")">>),
       CodeItem("honoErrorCode", "typescript",
                <<"Hono", "(", "Global", "Handler", ")">>) >>

middlewareBlocksMissing == << >>

\* case 'middleware'
middlewareBlocks ==
    << CodeItem("nextjsMiddlewareCode", "typescript",
                <<"Next.js", "Middleware">>),
       CodeItem("honoMiddlewareCode", "typescript",
                <<"Hono", "Middleware">>) >>

getBlocks(tab) ==
    CASE tab = "structure" -> structureBlocks
      [] tab = "routing" -> routingBlocks
      [] tab = "auth" -> authBlocks
      [] tab = "error" -> errorBlocks
      [] tab = "middleware" -> middlewareBlocks
      [] OTHER -> << >>

\* The two CodeBlock elements of the RPC section, which do not depend on activeTab.
rpcBlocks ==
    << CodeItem("honoRpcServerCode", "typescript",
                <<"Server", "(", "with", "type", "export", ")">>),
       CodeItem("honoRpcClientCode", "typescript",
                <<"Client", "(", "type-safe", "calls", ")">>) >>

(***************************************************************************)
(* Display slots and component instances                                   *)
(***************************************************************************)

\* The comparison grid's children, keyed by index 0 and 1.
PanelSlots == <<"panel0", "panel1">>

\* The RPC grid's children.
RpcSlots == <<"rpcServer", "rpcClient">>

Slots == {"panel0", "panel1", "rpcServer", "rpcClient"}

\* useState<string>('')
EmptyHtml == [text |-> "", lang |-> "", theme |-> "", styled |-> FALSE]

\* The markup codeToHtml resolves to: the text, annotated per grammar and theme.
codeToHtml(code, lang) ==
    [text |-> code, lang |-> lang, theme |-> "dark-plus", styled |-> TRUE]

\* Nothing rendered at a grid position.
NoComponent ==
    [type |-> "none", text |-> "", lang |-> "", title |-> << >>,
     inst |-> 0, html |-> EmptyHtml]

\* A FileTree instance: it has no state and shows {tree} in a <pre>.
FileTree(block) ==
    [type |-> "tree", text |-> block.text, lang |-> "", title |-> block.title,
     inst |-> 0, html |-> EmptyHtml]

\* An effect with no dependency array: it runs after every render.
DepsAlwaysChanged(old, block) ==
    TRUE

\* The dependency array [code, lang] compared with the previous render's.
DepsChanged(old, block) ==
    old.text # block.text \/ old.lang # block.lang

\* An element whose type or key differs on every render: never reused.
SameInstanceNever(old, block) ==
    FALSE

\* Whether rendering `block` where `old` is mounted keeps the instance.
SameInstance(old, block) ==
    old.type = block.type

\* Whether CodeBlock's effect runs when `block` is committed over `old`.
EffectFires(old, block) ==
    /\ block.type = "code"
    /\ \/ ~SameInstance(old, block)
       \/ DepsChanged(old, block)

\* A CodeBlock that renders the title it was mounted with.
CodeBlockStaleTitle(old, block, newInst) ==
    IF SameInstance(old, block)
    THEN [old EXCEPT !.text = block.text, !.lang = block.lang]
    ELSE [type |-> "code", text |-> block.text, lang |-> block.lang,
          title |-> block.title, inst |-> newInst, html |-> EmptyHtml]

\* The CodeBlock instance after `block` is committed over `old`; a fresh
\* instance takes the identity newInst and starts from useState('').
CodeBlock(old, block, newInst) ==
    IF SameInstance(old, block)
    THEN [old EXCEPT !.text = block.text, !.lang = block.lang,
                     !.title = block.title]
    ELSE [type |-> "code", text |-> block.text, lang |-> block.lang,
          title |-> block.title, inst |-> newInst, html |-> EmptyHtml]

\* blocks.map(...): what ends up mounted for one element of the grid.
Commit(old, block, newInst) ==
    CASE block.type = "tree" -> FileTree(block)
      [] block.type = "code" -> CodeBlock(old, block, newInst)
      [] OTHER -> NoComponent

\* A codeToHtml promise: who issued it, for which inputs, and its state.
Call(slot, inst, block) ==
    [slot |-> slot, inst |-> inst, code |-> block.text, lang |-> block.lang,
     state |-> "pending"]

BlockAt(blocks, i) ==
    IF i <= Len(blocks) THEN blocks[i] ELSE NoComponent

\* The calls the effects of one commit issue, in child order.  `olds` and
\* `blocks` are the mounted instances and the new elements of one grid.
IssuedCalls(slots, olds, blocks, issued) ==
    LET c1 == IF EffectFires(olds[slots[1]], BlockAt(blocks, 1))
              THEN << Call(slots[1],
                           Commit(olds[slots[1]], BlockAt(blocks, 1), issued + 1).inst,
                           BlockAt(blocks, 1)) >>
              ELSE << >>
        n1 == issued + Len(c1)
        c2 == IF EffectFires(olds[slots[2]], BlockAt(blocks, 2))
              THEN << Call(slots[2],
                           Commit(olds[slots[2]], BlockAt(blocks, 2), n1 + 1).inst,
                           BlockAt(blocks, 2)) >>
              ELSE << >>
    IN  c1 \o c2

\* The instances of one grid after the commit.
Committed(slots, olds, blocks, issued) ==
    LET first == IF EffectFires(olds[slots[1]], BlockAt(blocks, 1)) THEN 1 ELSE 0
    IN  [s \in {slots[1], slots[2]} |->
            IF s = slots[1]
            THEN Commit(olds[s], BlockAt(blocks, 1), issued + 1)
            ELSE Commit(olds[s], BlockAt(blocks, 2), issued + first + 1)]

\* The two summary paragraphs for a tab.
Summaries(tab) ==
    [nextjs |-> comparisons[tab].nextjs, hono |-> comparisons[tab].hono]

\* The html cell hoisted out of CodeBlock: one cell shared by all instances.
SetHtmlShared(m, slot, inst, html) ==
    [s \in Slots |-> IF m[s].type = "code" THEN [m[s] EXCEPT !.html = html] ELSE m[s]]

\* The html cell kept per grid position instead of per instance.
SetHtmlAnyInstance(m, slot, inst, html) ==
    IF m[slot].type = "code"
    THEN [m EXCEPT ![slot].html = html]
    ELSE m

\* setHtml called by the promise of instance `inst` of `slot`: a state update
\* of an instance that is no longer mounted is dropped.
SetHtml(m, slot, inst, html) ==
    IF m[slot].type = "code" /\ m[slot].inst = inst
    THEN [m EXCEPT ![slot].html = html]
    ELSE m

(***************************************************************************)
(* Initial state: the first render of App and the effects it runs          *)
(***************************************************************************)

\* A default tab that is not the first button.
InitialTabRouting == "routing"

\* useState<TabType>('structure')
InitialTab == "structure"

Unmounted == [s \in Slots |-> NoComponent]

Init ==
    /\ activeTab = InitialTab
    /\ summary = Summaries(InitialTab)
    /\ LET panelCalls == IssuedCalls(PanelSlots, Unmounted, getBlocks(InitialTab), 0)
           panel == Committed(PanelSlots, Unmounted, getBlocks(InitialTab), 0)
           rpcCalls == IssuedCalls(RpcSlots, Unmounted, rpcBlocks, Len(panelCalls))
           rpc == Committed(RpcSlots, Unmounted, rpcBlocks, Len(panelCalls))
       IN  /\ calls = panelCalls \o rpcCalls
           /\ mounted = [s \in Slots |-> IF s \in DOMAIN panel THEN panel[s] ELSE rpc[s]]

(***************************************************************************)
(* Actions                                                                 *)
(***************************************************************************)

\* onClick={() => setActiveTab(tab.id)}, the re-render of App it causes and
\* the effects of that commit.  At most `limit` calls are issued in a run.
SetActiveTab(t, limit) ==
    LET blocks == getBlocks(t)
        panelCalls == IssuedCalls(PanelSlots, mounted, blocks, Len(calls))
        panel == Committed(PanelSlots, mounted, blocks, Len(calls))
        n == Len(calls) + Len(panelCalls)
        rpcCalls == IssuedCalls(RpcSlots, mounted, rpcBlocks, n)
        rpc == Committed(RpcSlots, mounted, rpcBlocks, n)
    IN  /\ Len(calls) + Len(panelCalls) + Len(rpcCalls) <= limit
        /\ activeTab' = t
        /\ summary' = Summaries(t)
        /\ mounted' = [s \in Slots |-> IF s \in DOMAIN panel THEN panel[s] ELSE rpc[s]]
        /\ calls' = calls \o panelCalls \o rpcCalls

Select(t) == SetActiveTab(t, MaxCalls)

\* A pending codeToHtml promise fulfils: .then(setHtml) runs.
Resolve(id) ==
    /\ calls[id].state = "pending"
    /\ calls' = [calls EXCEPT ![id].state = "fulfilled"]
    /\ mounted' = SetHtml(mounted, calls[id].slot, calls[id].inst,
                          codeToHtml(calls[id].code, calls[id].lang))
    /\ UNCHANGED <<activeTab, summary>>

\* A pending codeToHtml promise rejects: .then(setHtml) has no rejection
\* handler, so nothing runs.
Reject(id) ==
    /\ calls[id].state = "pending"
    /\ calls' = [calls EXCEPT ![id].state = "rejected"]
    /\ UNCHANGED <<activeTab, summary, mounted>>

Next ==
    \/ \E t \in TabType : Select(t)
    \/ \E id \in DOMAIN calls : Resolve(id)
    \/ \E id \in DOMAIN calls : Reject(id)

Spec == Init /\ [][Next]_vars

(***************************************************************************)
(* Rapid switching: tabs are clicked only while no codeToHtml promise has  *)
(* settled yet; afterwards the pending promises fulfil in any order.       *)
(***************************************************************************)

NothingSettled == \A id \in DOMAIN calls : calls[id].state = "pending"

SelectRapid(t) ==
    /\ NothingSettled
    /\ SetActiveTab(t, MaxRapidCalls)

NextRapid ==
    \/ \E t \in TabType : SelectRapid(t)
    \/ \E id \in DOMAIN calls : Resolve(id)

SpecRapid == Init /\ [][NextRapid]_vars

(***************************************************************************)
(* Vocabulary of the properties                                            *)
(***************************************************************************)

\* The calls issued by the instance now mounted in slot s.
OwnCalls(s) ==
    {id \in DOMAIN calls : calls[id].slot = s /\ calls[id].inst = mounted[s].inst}

\* The call issued for the current (code, lang) inputs of slot s: every
\* change of the inputs issues a call, so it is the instance's newest one.
LatestCall(s) ==
    CHOOSE id \in OwnCalls(s) : \A other \in OwnCalls(s) : other <= id

\* A newer call was issued for the same display slot.
Superseded(id) ==
    \E newer \in DOMAIN calls : newer > id /\ calls[newer].slot = calls[id].slot

\* The original text with no styling annotations.
PlainText(code) ==
    [text |-> code, lang |-> "", theme |-> "", styled |-> FALSE]

\* The slots showing a CodeBlock.
CodeSlots == {s \in Slots : mounted[s].type = "code"}

\* Whether the words `part` occur, adjacent and in order, in `title`.
Contains(title, part) ==
    \E i \in 0..(Len(title) - Len(part)) :
        \A k \in 1..Len(part) : title[i + k] = part[k]

AllFulfilled == \A id \in DOMAIN calls : calls[id].state = "fulfilled"

NonePending == \A id \in DOMAIN calls : calls[id].state # "pending"

(***************************************************************************)
(* C1 .. C10                                                               *)
(***************************************************************************)

\* C1: after three code topics A, B, C were selected in a row before any
\* highlight call resolved, and once every call has resolved (in whatever
\* order), each code block of the comparison panel shows the highlighted
\* markup of topic C's code.  (Checked under SpecRapid, where tabs are
\* selected only while nothing has settled.)
C1_RapidSwitchShowsLastTopic ==
    (AllFulfilled /\ mounted["panel0"].type = "code"
                  /\ Cardinality(OwnCalls("panel0")) = 3)
        => \A i \in 1..2 :
              mounted[PanelSlots[i]].html =
                  codeToHtml(getBlocks(activeTab)[i].text, getBlocks(activeTab)[i].lang)

\* C2: when a highlight call resolves after a newer call was issued for the
\* same display slot, its result is discarded: the step leaves the slot's
\* markup as it was.
C2_SupersededResultDiscarded ==
    [][\A id \in DOMAIN calls :
          (Superseded(id) /\ Resolve(id))
              => mounted'[calls[id].slot].html = mounted[calls[id].slot].html]_vars

\* C3: when the highlight call for a code block's current inputs has failed
\* and nothing is pending any more, the block displays its original text
\* unstyled.
C3_FailureFallsBackToPlainText ==
    \A s \in CodeSlots :
        (NonePending /\ calls[LatestCall(s)].state = "rejected")
            => mounted[s].html = PlainText(mounted[s].text)

\* C4: a code block whose highlight call for its current (code, lang) inputs
\* is still pending displays a placeholder: nothing, or the current text
\* unstyled.
C4_PendingShowsPlaceholder ==
    \A s \in CodeSlots :
        calls[LatestCall(s)].state = "pending"
            => mounted[s].html \in {EmptyHtml, PlainText(mounted[s].text)}

\* C5: the active topic starts as 'structure', the first enumerated topic,
\* and is one of the five topics in every reachable state.
C5_ActiveTabEnumerated ==
    /\ activeTab = "structure"
    /\ activeTab = tabs[1]
    /\ [](activeTab \in TabType /\ activeTab \in {tabs[i] : i \in DOMAIN tabs})

\* C5 witness: a topic other than the initial one is active after a
\* selection, with the highlight of its first block already applied.
C5_Witness ==
    /\ activeTab = "middleware"
    /\ mounted["panel0"].html.styled

\* C6: select(t) makes t the active topic and the two summaries and the two
\* block titles shown are those of t; a highlight call resolving or failing
\* leaves the active topic unchanged.
C6_SelectSetsActiveTab ==
    [][/\ \A t \in TabType :
             Select(t) =>
                /\ activeTab' = t
                /\ summary'.nextjs = comparisons[t].nextjs
                /\ summary'.hono = comparisons[t].hono
                /\ \A i \in 1..2 : mounted'[PanelSlots[i]].title = getBlocks(t)[i].title
       /\ \A id \in DOMAIN calls :
             (Resolve(id) \/ Reject(id)) => activeTab' = activeTab]_vars

\* C6 witness: 'error' was selected over another code topic while highlight
\* calls were pending, and its summaries and titles are shown.
C6_Witness ==
    /\ activeTab = "error"
    /\ summary = [nextjs |-> "Per-route try/catch, inconsistent formats possible",
                  hono |-> "Global error handler, consistent response format"]
    /\ mounted["panel0"].title = <<"Next.js", "(", "Inconsistent", ")">>
    /\ mounted["panel1"].title = <<"Hono", "(", "Global", "Handler", ")">>
    /\ Cardinality(OwnCalls("panel0")) = 2
    /\ \E id \in DOMAIN calls : calls[id].state = "pending"

\* C7: for every topic the comparison lookup has a title and both summaries
\* and the block lookup returns exactly two blocks, the Next.js one first
\* and the Hono one second; the empty default is never what is rendered.
C7_LookupsTotal ==
    /\ DOMAIN comparisons = TabType
    /\ \A t \in TabType :
          /\ DOMAIN comparisons[t] = {"title", "nextjs", "hono"}
          /\ comparisons[t].title # ""
          /\ comparisons[t].nextjs # ""
          /\ comparisons[t].hono # ""
          /\ Len(getBlocks(t)) = 2
          /\ getBlocks(t)[1].title[1] = "Next.js"
          /\ getBlocks(t)[2].title[1] = "Hono"
    /\ getBlocks(activeTab) # << >>
    /\ \A i \in 1..2 : mounted[PanelSlots[i]].type \in {"tree", "code"}

\* C7 witness: the last case of the block lookup is the one rendered.
C7_Witness ==
    /\ activeTab = "middleware"
    /\ mounted["panel0"].text = "nextjsMiddlewareCode"
    /\ mounted["panel1"].text = "honoMiddlewareCode"

\* C8: selecting the topic that is already active changes nothing: active
\* topic, summaries, block titles and contents, and the pending highlight
\* calls are the same after as before.
C8_ReselectIdempotent ==
    [][Select(activeTab) => UNCHANGED <<activeTab, summary, mounted, calls>>]_vars

\* C8 witness: a code topic is active with one block highlighted and the
\* other block's call still pending, a state in which re-selecting it is
\* possible.
C8_Witness ==
    /\ activeTab = "routing"
    /\ mounted["panel0"].html = codeToHtml("nextjsRoutingCode", "typescript")
    /\ calls[LatestCall("panel1")].state = "pending"
    /\ ENABLED Select(activeTab)

\* C9: with 'auth' active the left block is a code block whose title
\* contains 'Manual Per-Route' and the right one a code block whose title
\* contains 'Middleware Chain'; with 'structure' active both are tree blocks
\* titled 'Next.js Route Handlers' and 'Hono Catch-All Handler', showing
\* their tree text as it is, and no highlight call exists for them.
C9_AuthAndStructureBlocks ==
    /\ activeTab = "auth" =>
          /\ mounted["panel0"].type = "code"
          /\ Contains(mounted["panel0"].title, <<"Manual", "Per-Route">>)
          /\ mounted["panel1"].type = "code"
          /\ Contains(mounted["panel1"].title, <<"Middleware", "Chain">>)
    /\ activeTab = "structure" =>
          /\ mounted["panel0"].type = "tree"
          /\ mounted["panel0"].title = <<"Next.js", "Route", "Handlers">>
          /\ mounted["panel0"].text = "nextjsFileTree"
          /\ mounted["panel1"].type = "tree"
          /\ mounted["panel1"].title = <<"Hono", "Catch-All", "Handler">>
          /\ mounted["panel1"].text = "honoFileTree"
          /\ OwnCalls("panel0") = {} /\ OwnCalls("panel1") = {}
          /\ \A id \in DOMAIN calls : calls[id].code \notin {"nextjsFileTree", "honoFileTree"}

\* C9 witness: 'structure' is shown again after 'auth' had been shown.
C9_Witness ==
    /\ activeTab = "structure"
    /\ \E id \in DOMAIN calls : calls[id].code = "nextjsAuthCode"

\* C10: a highlight result is applied only to the slot that issued the
\* call, and two pending calls of different slots lead to the same markup
\* in every slot whichever of them completes first.
C10_SlotsIndependent ==
    /\ [](\A a, b \in DOMAIN calls :
            (/\ calls[a].state = "pending"
             /\ calls[b].state = "pending"
             /\ calls[a].slot # calls[b].slot)
            => SetHtml(SetHtml(mounted, calls[a].slot, calls[a].inst,
                               codeToHtml(calls[a].code, calls[a].lang)),
                       calls[b].slot, calls[b].inst,
                       codeToHtml(calls[b].code, calls[b].lang))
             = SetHtml(SetHtml(mounted, calls[b].slot, calls[b].inst,
                               codeToHtml(calls[b].code, calls[b].lang)),
                       calls[a].slot, calls[a].inst,
                       codeToHtml(calls[a].code, calls[a].lang)))
    /\ [][\A id \in DOMAIN calls :
             Resolve(id) =>
                \A s \in Slots \ {calls[id].slot} : mounted'[s] = mounted[s]]_vars

\* C10 witness: calls of all four slots were pending at once and the later
\* issued ones completed first.
C10_Witness ==
    /\ Len(calls) = 4
    /\ calls[1].state = "pending" /\ calls[3].state = "pending"
    /\ calls[2].state = "fulfilled" /\ calls[4].state = "fulfilled"
    /\ mounted["rpcClient"].html = codeToHtml("honoRpcClientCode", "typescript")
    /\ mounted["panel1"].html.styled
    /\ mounted["rpcServer"].html = EmptyHtml
    /\ mounted["panel0"].html = EmptyHtml

(***************************************************************************)
(* C11 .. C12                                                              *)
(***************************************************************************)

\* The calls ever issued for display slot s.
CallsOf(s) == {id \in DOMAIN calls : calls[id].slot = s}

\* C11: a highlight call is issued for a code block instance only when it
\* mounts or when its (code, lang) pair changes, and then for the new pair;
\* a promise settling issues none.  Hence each of the two RPC blocks is
\* highlighted exactly once, and a topic selection never changes what they
\* display.
C11_CallsOnlyOnMountOrChange ==
    /\ [](\A i \in 1..2 : Cardinality(CallsOf(RpcSlots[i])) = 1)
    /\ [][/\ \A t \in TabType :
               Select(t) =>
                  /\ \A i \in 1..2 : mounted'[RpcSlots[i]] = mounted[RpcSlots[i]]
                  /\ \A id \in (DOMAIN calls') \ (DOMAIN calls) :
                        LET s == calls'[id].slot
                        IN  /\ mounted'[s].type = "code"
                            /\ calls'[id].inst = mounted'[s].inst
                            /\ calls'[id].code = mounted'[s].text
                            /\ calls'[id].lang = mounted'[s].lang
                            /\ \/ mounted'[s].inst # mounted[s].inst
                               \/ mounted'[s].text # mounted[s].text
                               \/ mounted'[s].lang # mounted[s].lang
                            /\ \A other \in (DOMAIN calls') \ (DOMAIN calls) :
                                  calls'[other].slot = s => other = id
          /\ \A id \in DOMAIN calls :
               (Resolve(id) \/ Reject(id)) => DOMAIN calls' = DOMAIN calls]_vars

\* C11 witness: after two topic selections the RPC blocks show the markup
\* of their single calls, while the comparison panel has issued four.
C11_Witness ==
    /\ activeTab = "auth"
    /\ Len(calls) = 6
    /\ mounted["rpcServer"].html = codeToHtml("honoRpcServerCode", "typescript")
    /\ mounted["rpcClient"].html = codeToHtml("honoRpcClientCode", "typescript")
    /\ CallsOf("rpcServer") = {1}
    /\ CallsOf("rpcClient") = {2}

\* C12: a comparison code block mounted in place of a tree block starts
\* with empty markup and as a new instance; a call issued by an instance
\* that is no longer mounted changes nothing displayed when it resolves; so
\* what a comparison code block displays is empty or the result of a
\* fulfilled call of the instance now mounted.
C12_NothingSurvivesUnmount ==
    /\ [](\A i \in 1..2 :
            LET s == PanelSlots[i]
            IN  mounted[s].type = "code" =>
                  \/ mounted[s].html = EmptyHtml
                  \/ \E id \in OwnCalls(s) :
                        /\ calls[id].state = "fulfilled"
                        /\ mounted[s].html = codeToHtml(calls[id].code, calls[id].lang))
    /\ [][/\ \A t \in TabType :
               Select(t) =>
                  \A i \in 1..2 :
                     LET s == PanelSlots[i]
                     IN  (mounted[s].type = "tree" /\ mounted'[s].type = "code") =>
                            /\ mounted'[s].html = EmptyHtml
                            /\ \A id \in DOMAIN calls : calls[id].inst # mounted'[s].inst
          /\ \A id \in DOMAIN calls :
               (Resolve(id) /\ calls[id].inst # mounted[calls[id].slot].inst)
                  => mounted' = mounted]_vars

\* C12 witness: 'routing' was replaced by 'structure' and then by 'auth';
\* the left routing call has resolved, the right one is still pending, and
\* both new blocks are still empty.
C12_Witness ==
    /\ activeTab = "auth"
    /\ Len(calls) = 6
    /\ calls[3].code = "nextjsRoutingCode" /\ calls[3].state = "fulfilled"
    /\ calls[4].code = "honoRoutingCode" /\ calls[4].state = "pending"
    /\ calls[3].inst # mounted["panel0"].inst
    /\ calls[5].state = "pending" /\ calls[6].state = "pending"
    /\ mounted["panel0"].html = EmptyHtml
    /\ mounted["panel1"].html = EmptyHtml

====
